---- MODULE Spec2Model ----
(***************************************************************************)
(* State-machine model of the ecomfy storefront API server                 *)
(* (server/routes.ts, server/storage.ts, shared/schema.ts,                  *)
(* scripts/clear-dummy-data.ts).                                            *)
(*                                                                         *)
(* Granularity.  The server is a single-threaded Node process: a handler   *)
(* runs without interruption until it awaits a store operation, and other  *)
(* requests run while it waits.  Each action below is therefore one store  *)
(* operation together with the synchronous continuation that follows it,   *)
(* up to the point where the next store operation is issued.  The arrival  *)
(* of a request (Receive) runs the synchronous prefix of its first         *)
(* middleware or handler.  req.body is the object express.json() produced. *)
(***************************************************************************)
EXTENDS Integers, Sequences, FiniteSets, TLC

(***************************************************************************)
(* Bounds of the model.                                                    *)
(***************************************************************************)
MaxClock == 8     \* the clock stops here
MaxUsers == 2     \* registrations that succeed
MaxIssued == 1    \* tokens the clients hold at a time
MaxRows == 1      \* rows that requests add to each catalog table
MaxOrders == 2    \* orders placed
MaxOrderItems == 3 \* order items written
MaxQty == 3        \* the quantity of one cart line

(***************************************************************************)
(* Program constants.                                                      *)
(***************************************************************************)
TokenDays == 7
MinPasswordLen == 6

JWT_SECRET == "your-secret-key"
ForgedKey == "attacker-key"

Slots == {1, 2}

\* An absent (undefined) string field; an absent field of another type is the
\* empty tuple Absent, a present one the one-element tuple of its value.
Missing == "undefined"
Absent == << >>
\* A JSON value of the wrong type where the schema wants a string.
BadType == "<number>"

Usernames == {"admin", "alice", "carol"}
Emails == {"admin@ecomfy.com", "a@x.com", "bob"}
Passwords == {"admin123", "secret1", "abc"}

ProductNames == {"chair", "lamp"}
CategoryNames == {"Home"}
Statuses == {"pending", "shipped", "bogus"}

VARIABLES
  users,        \* the users table
  categories,   \* the categories table
  products,     \* the products table
  orders,       \* the orders table
  orderItems,   \* the order_items table
  nextId,       \* per table, the next fresh row id (gen_random_uuid)
  now,          \* the wall clock, in days
  issued,       \* the tokens that clients hold
  reqs,         \* per connection slot, the request being handled and its response
  cart          \* the browser's cart store: items, itemCount, total

storeVars == <<users, categories, products, orders, orderItems, nextId>>
catalogVars == <<categories, products>>
orderVars == <<orders, orderItems>>
vars == <<users, categories, products, orders, orderItems, nextId, now, issued, reqs, cart>>

(***************************************************************************)
(* bcryptjs: hash is one-way; compare succeeds exactly on the hashed       *)
(* plaintext.                                                              *)
(***************************************************************************)
Hash(password) == "$2a$10$" \o password

Compare(password, hashed) == hashed = Hash(password)

(***************************************************************************)
(* jsonwebtoken.  A token carries the user id, when it was issued, its     *)
(* expiry, and the key that signed it; form tells a JWT from an empty or a *)
(* malformed credential.                                                   *)
(***************************************************************************)
NoToken == [form |-> "absent", userId |-> 0, iat |-> 0, exp |-> 0, key |-> ""]
EmptyToken == [form |-> "empty", userId |-> 0, iat |-> 0, exp |-> 0, key |-> ""]
GarbageToken == [form |-> "malformed", userId |-> 0, iat |-> 0, exp |-> 0, key |-> ""]

\* Mutant: expiresIn "1d".
JwtSign_OneDay(userId, key, at) ==
  [form |-> "jwt", userId |-> userId, iat |-> at, exp |-> at + 1, key |-> key]

JwtSign(userId, key, at) ==
  [form |-> "jwt", userId |-> userId, iat |-> at, exp |-> at + TokenDays, key |-> key]

\* Mutant: jwt.verify with ignoreExpiration.
JwtVerify_IgnoreExpiration(token, key, at) ==
  /\ token.form = "jwt"
  /\ token.key = key

JwtVerify(token, key, at) ==
  /\ token.form = "jwt"
  /\ token.key = key
  /\ at < token.exp

(***************************************************************************)
(* The authorization header, as the words authHeader.split(' ') yields;    *)
(* the empty sequence is an absent header.                                 *)
(***************************************************************************)
BearerToken(header) == IF Len(header) >= 2 THEN header[2] ELSE NoToken

Falsy(token) == token.form \in {"absent", "empty"}

(***************************************************************************)
(* shared/schema.ts                                                        *)
(***************************************************************************)
NoUser == [id |-> 0, username |-> "", email |-> "", password |-> "", role |-> ""]

IsEmail(e) == e \in {"admin@ecomfy.com", "a@x.com"}

\* loginSchema.parse: the messages of the issues, in order.
LoginIssues(body) ==
  (IF body.email = Missing THEN <<"Required">>
   ELSE IF ~IsEmail(body.email) THEN <<"Invalid email">> ELSE << >>)
  \o
  (IF body.password = Missing THEN <<"Required">>
   ELSE IF Len(body.password) < MinPasswordLen
        THEN <<"String must contain at least 6 character(s)">> ELSE << >>)

\* Mutant: registerSchema without its refinement.
RegisterIssues_NoRefine(body) ==
  LET req(f) == IF f = Missing THEN <<"Required">> ELSE << >>
      fields == req(body.username) \o req(body.email) \o req(body.password)
      confirm == IF body.confirmPassword = Missing THEN <<"Required">>
                 ELSE IF Len(body.confirmPassword) < MinPasswordLen
                      THEN <<"String must contain at least 6 character(s)">>
                      ELSE << >>
  IN fields \o confirm

\* registerSchema.parse: insertUserSchema's fields, then confirmPassword, then
\* the refinement, which runs unless a field had the wrong type.
RegisterIssues(body) ==
  LET req(f) == IF f = Missing THEN <<"Required">> ELSE << >>
      fields == req(body.username) \o req(body.email) \o req(body.password)
      confirm == IF body.confirmPassword = Missing THEN <<"Required">>
                 ELSE IF Len(body.confirmPassword) < MinPasswordLen
                      THEN <<"String must contain at least 6 character(s)">>
                      ELSE << >>
      aborted == Missing \in {body.username, body.email, body.password,
                              body.confirmPassword}
      refine == IF ~aborted /\ body.password # body.confirmPassword
                THEN <<"Passwords don't match">> ELSE << >>
  IN fields \o confirm \o refine

\* SQL NULL in a text column.
Null == "NULL"

(***************************************************************************)
(* Text and numbers as PostgreSQL and JavaScript treat them.               *)
(***************************************************************************)
\* The characters of the strings the model stores and searches for.
Chars(str) ==
  CASE str = "Camera Drone" ->
         <<"C", "a", "m", "e", "r", "a", " ", "D", "r", "o", "n", "e">>
    [] str = "4K aerial photography with stabilization" ->
         <<"4", "K", " ", "a", "e", "r", "i", "a", "l", " ", "p", "h", "o", "t", "o", "g", "r", "a", "p", "h", "y", " ", "w", "i", "t", "h", " ", "s", "t", "a", "b", "i", "l", "i", "z", "a", "t", "i", "o", "n">>
    [] str = "chair" ->
         <<"c", "h", "a", "i", "r">>
    [] str = "DRONE" ->
         <<"D", "R", "O", "N", "E">>
    [] str = "aerial" ->
         <<"a", "e", "r", "i", "a", "l">>
    [] str = "sofa" ->
         <<"s", "o", "f", "a">>
    [] str = "_" ->
         <<"_">>

\* lower(c) of one character.
Lower(c) ==
  CASE c = "C" -> "c"
    [] c = "D" -> "d"
    [] c = "E" -> "e"
    [] c = "K" -> "k"
    [] c = "N" -> "n"
    [] c = "O" -> "o"
    [] c = "R" -> "r"
    [] OTHER -> c

RECURSIVE LowerAll(_)
LowerAll(t) == IF t = << >> THEN << >> ELSE <<Lower(Head(t))>> \o LowerAll(Tail(t))

\* text LIKE pattern over characters: % matches any run of characters, _ any
\* one character, every other character itself.
RECURSIVE Like(_, _)
Like(t, p) ==
  IF p = << >> THEN t = << >>
  ELSE IF Head(p) = "%" THEN Like(t, Tail(p)) \/ (t # << >> /\ Like(Tail(t), p))
  ELSE /\ t # << >>
       /\ (Head(p) = "_" \/ Head(p) = Head(t))
       /\ Like(Tail(t), Tail(p))

\* ilike(column, `%${search}%`): NULL matches nothing.
ILikeContains(text, search) ==
  /\ text # Null
  /\ Like(LowerAll(Chars(text)), LowerAll(<<"%">> \o Chars(search) \o <<"%">>))

\* A JavaScript number: NaN, or an amount in thousandths.
NaN == [nan |-> TRUE, v |-> 0]
Num(v) == [nan |-> FALSE, v |-> v]

\* parseFloat of the query strings the model sends.
ParseFloat(str) ==
  CASE str = "0" -> Num(0)
    [] str = "100" -> Num(100000)
    [] str = "599" -> Num(599000)
    [] str = "10.005" -> Num(10005)
    [] OTHER -> NaN

\* column >= $1 and column <= $1 for a numeric column (in hundredths) and the
\* number's toString(); PostgreSQL orders NaN above every number.
Gte(column, n) == ~n.nan /\ column * 10 >= n.v
Lte(column, n) == n.nan \/ column * 10 <= n.v

(***************************************************************************)
(* server/storage.ts: the credential store.                                *)
(***************************************************************************)
\* Mutant: the query has lost its where clause.
GetUser_NoWhere(id) == IF users # {} THEN CHOOSE u \in users : TRUE ELSE NoUser

GetUser(id) ==
  IF \E u \in users : u.id = id
  THEN CHOOSE u \in users : u.id = id ELSE NoUser

GetUserByEmail(email) ==
  IF \E u \in users : u.email = email
  THEN CHOOSE u \in users : u.email = email ELSE NoUser

GetUserByUsername(username) ==
  IF \E u \in users : u.username = username
  THEN CHOOSE u \in users : u.username = username ELSE NoUser

\* Mutant: the users table has no unique column.
UsersUniqueViolation_None(username, email) == FALSE

\* users.username and users.email are declared unique.
UsersUniqueViolation(username, email) ==
  \E u \in users : u.username = username \/ u.email = email

\* Mutant: createUser stores the password as it came.
NewUserRow_PlainPassword(insertUser) ==
  [id |-> nextId.users,
   username |-> insertUser.username,
   email |-> insertUser.email,
   password |-> insertUser.password,
   role |-> IF insertUser.role \in {Missing, ""} THEN "user" ELSE insertUser.role]

\* createUser: the row inserted for insertUser.
NewUserRow(insertUser) ==
  [id |-> nextId.users,
   username |-> insertUser.username,
   email |-> insertUser.email,
   password |-> Hash(insertUser.password),
   role |-> IF insertUser.role \in {Missing, ""} THEN "user" ELSE insertUser.role]

PublicUser(u) == [id |-> u.id, username |-> u.username, email |-> u.email, role |-> u.role]

(***************************************************************************)
(* server/storage.ts: catalog and order stores.                            *)
(***************************************************************************)
\* A decimal(10, 2) column.  The amounts a client sends are counted in
\* thousandths; the column keeps hundredths, rounding half away from zero.
ToDecimal(v) == IF v >= 0 THEN (v + 5) \div 10 ELSE -((5 - v) \div 10)

NoProduct ==
  [id |-> 0, name |-> "", description |-> Null, price |-> 0, stock |-> 0,
   categoryId |-> 0, rating |-> "", reviewCount |-> 0, isActive |-> FALSE]

NoOrder == [id |-> 0, userId |-> 0, totalPrice |-> 0, status |-> "", customerEmail |-> ""]

\* getProducts: the active products that meet every condition pushed for a
\* filter that is set.
GetProducts(filters) ==
  {p \in products :
     /\ p.isActive = TRUE
     /\ filters.categoryId # Absent => p.categoryId = filters.categoryId[1]
     /\ filters.search # Missing =>
          ILikeContains(p.name, filters.search) \/ ILikeContains(p.description, filters.search)
     /\ filters.minPrice # Absent => Gte(p.price, filters.minPrice[1])
     /\ filters.maxPrice # Absent => Lte(p.price, filters.maxPrice[1])}

GetProduct(id) ==
  IF \E p \in products : p.id = id
  THEN CHOOSE p \in products : p.id = id ELSE NoProduct

GetOrder(id) ==
  IF \E o \in orders : o.id = id
  THEN CHOOSE o \in orders : o.id = id ELSE NoOrder

\* Mutant: the query always selects every order.
GetOrders_NoWhere(userId) == orders

\* getOrders: an absent (falsy) userId selects every order.
GetOrders(userId) ==
  IF userId # 0 THEN {o \in orders : o.userId = userId} ELSE orders

\* Mutant: createProduct keeps what the body says of isActive.
NewProductRow_KeepsActive(product) ==
  [id |-> nextId.products,
   name |-> product.name,
   description |-> IF product.description = Missing THEN Null ELSE product.description,
   price |-> ToDecimal(product.price[1]),
   stock |-> IF product.stock = Absent THEN 0 ELSE product.stock[1],
   categoryId |-> IF product.categoryId = Absent THEN 0 ELSE product.categoryId[1],
   rating |-> "0.0",
   reviewCount |-> 0,
   isActive |-> IF product.isActive = Absent THEN TRUE ELSE product.isActive[1]]

\* createProduct: the row inserted for a parsed body; rating, reviewCount and
\* isActive are overwritten, absent optional columns take their defaults.
NewProductRow(product) ==
  [id |-> nextId.products,
   name |-> product.name,
   description |-> IF product.description = Missing THEN Null ELSE product.description,
   price |-> ToDecimal(product.price[1]),
   stock |-> IF product.stock = Absent THEN 0 ELSE product.stock[1],
   categoryId |-> IF product.categoryId = Absent THEN 0 ELSE product.categoryId[1],
   rating |-> "0.0",
   reviewCount |-> 0,
   isActive |-> TRUE]

\* products.category_id references categories.id (0 stands for NULL).
ProductFkViolation(categoryId) ==
  categoryId # 0 /\ ~\E c \in categories : c.id = categoryId

\* updateProduct: the row after .set(product), absent fields left alone.
UpdatedProductRow(p, product) ==
  [p EXCEPT
     !.name = IF product.name = Missing THEN @ ELSE product.name,
     !.description = IF product.description = Missing THEN @ ELSE product.description,
     !.rating = IF product.rating = Missing THEN @ ELSE product.rating,
     !.reviewCount = IF product.reviewCount = Absent THEN @ ELSE product.reviewCount[1],
     !.price = IF product.price = Absent THEN @ ELSE ToDecimal(product.price[1]),
     !.stock = IF product.stock = Absent THEN @ ELSE product.stock[1],
     !.categoryId = IF product.categoryId = Absent THEN @ ELSE product.categoryId[1],
     !.isActive = IF product.isActive = Absent THEN @ ELSE product.isActive[1]]

\* insertProductSchema.parse: name, price and image are required columns.
ProductIssues(body) ==
  (IF body.name = Missing THEN <<"Required">>
   ELSE IF body.name = BadType THEN <<"Expected string, received number">>
   ELSE << >>)
  \o (IF body.price = Absent THEN <<"Required">> ELSE << >>)
  \o (IF body.image = Missing THEN <<"Required">> ELSE << >>)

\* insertProductSchema.partial().parse: every column optional.
PartialProductIssues(body) ==
  IF body.name = BadType THEN <<"Expected string, received number">> ELSE << >>

\* insertCategorySchema.parse: name is the required column.
CategoryIssues(body) ==
  IF body.name = Missing THEN <<"Required">>
  ELSE IF body.name = BadType THEN <<"Expected string, received number">>
  ELSE << >>

\* drizzle's update().set() refuses an object with no column to set.
NoValuesToSet(product) ==
  /\ product.name = Missing
  /\ product.description = Missing
  /\ product.image = Missing
  /\ product.rating = Missing
  /\ product.reviewCount = Absent
  /\ product.price = Absent
  /\ product.stock = Absent
  /\ product.categoryId = Absent
  /\ product.isActive = Absent

\* Mutant: a new order starts as processing.
NewOrderRow_StartsProcessing(order) ==
  [id |-> nextId.orders,
   userId |-> order.userId,
   totalPrice |-> ToDecimal(order.totalPrice),
   status |-> "processing",
   customerEmail |-> order.customerEmail]

\* createOrder: the row inserted by POST /api/orders.
NewOrderRow(order) ==
  [id |-> nextId.orders,
   userId |-> order.userId,
   totalPrice |-> ToDecimal(order.totalPrice),
   status |-> IF order.status = Missing THEN "pending" ELSE order.status,
   customerEmail |-> order.customerEmail]

\* createOrderItem: the row inserted for one input item.
NewOrderItemRow(orderId, item) ==
  [id |-> nextId.orderItems,
   orderId |-> orderId,
   productId |-> item.productId,
   quantity |-> item.quantity,
   price |-> ToDecimal(item.price[1])]

\* Mutant: the order_items table has no foreign key.
OrderItemFkViolation_None(orderId, productId) == FALSE

\* order_items.order_id and order_items.product_id are foreign keys.
OrderItemFkViolation(orderId, productId) ==
  \/ ~\E o \in orders : o.id = orderId
  \/ ~\E p \in products : p.id = productId

NoOut == [user |-> PublicUser(NoUser), token |-> NoToken, rows |-> {}]

(***************************************************************************)
(* server/routes.ts: requests.                                             *)
(***************************************************************************)
Register == "POST /api/auth/register"
Login == "POST /api/auth/login"
Me == "GET /api/auth/me"
PostCategories == "POST /api/categories"
PostProducts == "POST /api/products"
PutProduct == "PUT /api/products/:id"
DeleteProductRoute == "DELETE /api/products/:id"
GetProductsRoute == "GET /api/products"
GetOrdersRoute == "GET /api/orders"
PostOrders == "POST /api/orders"
PutOrderStatus == "PUT /api/orders/:id/status"
Upload == "POST /api/upload"

\* Routes registered with authenticateToken, and those also with requireAdmin.
AdminRoutes == {PostCategories, PostProducts, PutProduct, DeleteProductRoute, PutOrderStatus}
GuardedRoutes == AdminRoutes \cup {Me, GetOrdersRoute, PostOrders, Upload}

NoBody == [none |-> TRUE]

IdleReq ==
  [route |-> "", header |-> << >>, body |-> NoBody, param |-> 0,
   pc |-> "idle", decoded |-> 0, user |-> NoUser,
   status |-> 0, msg |-> "", out |-> NoOut,
   order |-> NoOrder, idx |-> 0,
   \* history, read by the properties only: whether the handler body was
   \* entered, whether the request wrote a table, when it arrived, whether
   \* getUser ran while a user with the token's id was stored, and whether a
   \* user with the body's email was stored when the handler looked it up (for
   \* a login the schema rejected, when it arrived)
   started |-> FALSE, wrote |-> FALSE, at |-> 0, gateKnown |-> FALSE,
   emailKnown |-> FALSE]

NewReq(route, header, body, param) ==
  [IdleReq EXCEPT !.route = route, !.header = header, !.body = body,
                  !.param = param, !.pc = "recv"]

\* res.status(status).json({message}) and return.
Respond(r, status, msg) == [r EXCEPT !.pc = "done", !.status = status, !.msg = msg]

\* res.json(payload): status 200.
RespondJson(r, out) == [r EXCEPT !.pc = "done", !.status = 200, !.out = out]

\* The catch block of a handler: a ZodError is a 400, anything else a 500.
InternalError(r) == Respond(r, 500, "Internal server error")

(***************************************************************************)
(* The synchronous prefix of each handler: from its first statement to the *)
(* store operation it awaits first (or to its response).                   *)
(***************************************************************************)
RegisterStart(r) ==
  LET issues == RegisterIssues(r.body) IN
  IF issues # << >> THEN Respond(r, 400, issues[1])
  ELSE [r EXCEPT !.pc = "getUserByEmail"]

LoginStart(r) ==
  LET issues == LoginIssues(r.body) IN
  IF issues # << >> THEN Respond(r, 400, issues[1])
  ELSE [r EXCEPT !.pc = "loginGetUserByEmail"]

\* Mutant: the login says which of the two checks failed.
LoginReject_Tells(r, cause) ==
  Respond(r, 400, IF cause = "no user" THEN "User not found" ELSE "Invalid credentials")

\* The two rejections of POST /api/auth/login: no user with the email, and a
\* password that does not match.
LoginReject(r, cause) == Respond(r, 400, "Invalid credentials")

\* GET /api/products: the filters built from req.query; an absent or empty
\* parameter sets no filter.
ProductFilters(query) ==
  [categoryId |-> query.categoryId,
   search |-> IF query.search \in {Missing, ""} THEN Missing ELSE query.search,
   minPrice |-> IF query.minPrice \in {Missing, ""} THEN Absent
                ELSE <<ParseFloat(query.minPrice)>>,
   maxPrice |-> IF query.maxPrice \in {Missing, ""} THEN Absent
                ELSE <<ParseFloat(query.maxPrice)>>]

GetProductsStart(r) == [r EXCEPT !.pc = "getProducts"]

MeHandler(r) == RespondJson(r, [NoOut EXCEPT !.user = PublicUser(r.user)])

PostCategoriesStart(r) ==
  LET issues == CategoryIssues(r.body) IN
  IF issues # << >> THEN Respond(r, 400, issues[1])
  ELSE [r EXCEPT !.pc = "createCategory"]

PostProductsStart(r) ==
  LET issues == ProductIssues(r.body) IN
  IF issues # << >> THEN Respond(r, 400, issues[1])
  ELSE [r EXCEPT !.pc = "createProduct"]

PutProductStart(r) ==
  LET issues == PartialProductIssues(r.body) IN
  IF issues # << >> THEN Respond(r, 400, issues[1])
  ELSE [r EXCEPT !.pc = "updateProduct"]

DeleteProductStart(r) == [r EXCEPT !.pc = "deleteProduct"]

GetOrdersStart(r) == [r EXCEPT !.pc = "getOrders"]

\* Mutant: an empty list passes.
ItemsRejected_EmptyPasses(items) ==
  \/ items.type = "undefined"
  \/ items.type # "array"

\* !items || !Array.isArray(items) || items.length === 0
ItemsRejected(items) ==
  \/ items.type = "undefined"
  \/ items.type # "array"
  \/ Len(items.elems) = 0

\* totalPrice.toString() throws on an absent totalPrice, before any write.
PostOrdersStart(r) ==
  IF ItemsRejected(r.body.items) THEN Respond(r, 400, "Order items are required")
  ELSE IF r.body.totalPrice = Absent THEN InternalError(r)
  ELSE [r EXCEPT !.pc = "createOrder"]

\* Mutant: the loop leaves out the last item.
OrderItemsLoop_StopsEarly(r) ==
  IF r.idx >= Len(r.body.items.elems) THEN RespondJson(r, [NoOut EXCEPT !.rows = {r.order}])
  ELSE IF r.body.items.elems[r.idx].price = Absent THEN InternalError(r)
  ELSE [r EXCEPT !.pc = "createOrderItem"]

\* The for loop of POST /api/orders at item idx: done, or item.price.toString()
\* throws, or the next createOrderItem is awaited.
OrderItemsLoop(r) ==
  IF r.idx > Len(r.body.items.elems) THEN RespondJson(r, [NoOut EXCEPT !.rows = {r.order}])
  ELSE IF r.body.items.elems[r.idx].price = Absent THEN InternalError(r)
  ELSE [r EXCEPT !.pc = "createOrderItem"]

\* Mutant: only the statuses the schema's comment lists are accepted.
PutOrderStatusStart_KnownOnly(r) ==
  IF r.body.status \notin {"pending", "processing", "shipped", "delivered", "cancelled"}
  THEN Respond(r, 400, "Status is required")
  ELSE [r EXCEPT !.pc = "updateOrderStatus"]

\* if (!status): an absent or empty status is refused.
PutOrderStatusStart(r) ==
  IF r.body.status \in {Missing, ""} THEN Respond(r, 400, "Status is required")
  ELSE [r EXCEPT !.pc = "updateOrderStatus"]

\* upload.single("image") and the upload handler; multer fails an oversized
\* file, and the app's error middleware answers for it.
UploadHandler(r) ==
  IF r.body.file = "too-large" THEN Respond(r, 500, "File too large")
  ELSE IF r.body.file = "none" THEN Respond([r EXCEPT !.started = TRUE], 400, "No file uploaded")
  ELSE RespondJson([r EXCEPT !.started = TRUE], NoOut)

HandlerStart(r) ==
  LET h == [r EXCEPT !.started = TRUE] IN
  CASE r.route = Register -> RegisterStart(h)
    [] r.route = Login -> LoginStart(h)
    [] r.route = Me -> MeHandler(h)
    [] r.route = PostCategories -> PostCategoriesStart(h)
    [] r.route = PostProducts -> PostProductsStart(h)
    [] r.route = PutProduct -> PutProductStart(h)
    [] r.route = DeleteProductRoute -> DeleteProductStart(h)
    [] r.route = GetProductsRoute -> GetProductsStart(h)
    [] r.route = GetOrdersRoute -> GetOrdersStart(h)
    [] r.route = PostOrders -> PostOrdersStart(h)
    [] r.route = PutOrderStatus -> PutOrderStatusStart(h)
    [] r.route = Upload -> UploadHandler(r)

(***************************************************************************)
(* Middleware.                                                             *)
(***************************************************************************)
\* Mutant: the role gate only asks for a user.
requireAdmin_AnyUser(r) ==
  IF r.user = NoUser
  THEN Respond(r, 403, "Admin access required")
  ELSE HandlerStart(r)

requireAdmin(r) ==
  IF r.user = NoUser \/ r.user.role # "admin"
  THEN Respond(r, 403, "Admin access required")
  ELSE HandlerStart(r)

\* next() after authenticateToken.
AfterAuth(r) == IF r.route \in AdminRoutes THEN requireAdmin(r) ELSE HandlerStart(r)

\* Mutant: a missing token is answered like one that fails verification.
authenticateToken_MissingAsInvalid(r) ==
  LET token == BearerToken(r.header) IN
  IF ~JwtVerify(token, JWT_SECRET, now) THEN Respond(r, 403, "Invalid token")
  ELSE [r EXCEPT !.pc = "getUser", !.decoded = token.userId]

\* authenticateToken up to its await: header, token, jwt.verify.
authenticateToken(r) ==
  LET token == BearerToken(r.header) IN
  IF Falsy(token) THEN Respond(r, 401, "Access token required")
  ELSE IF ~JwtVerify(token, JWT_SECRET, now) THEN Respond(r, 403, "Invalid token")
  ELSE [r EXCEPT !.pc = "getUser", !.decoded = token.userId]

\* Mutant: the gate lets a verified token through whether or not its user exists.
authenticateTokenUser_NoUserCheck(r, user) == AfterAuth([r EXCEPT !.user = user])

\* authenticateToken from the answer of storage.getUser on.
authenticateTokenUser(r, user) ==
  IF user = NoUser THEN Respond(r, 401, "Invalid token")
  ELSE AfterAuth([r EXCEPT !.user = user])

\* Express dispatches an arriving request to the first function of its route.
Dispatch(r) == IF r.route \in GuardedRoutes THEN authenticateToken(r) ELSE HandlerStart(r)

(***************************************************************************)
(* Clients.                                                                *)
(***************************************************************************)
\* A client that is handed a token keeps it, drops it, or keeps it in place of
\* one it held (clients hold at most MaxIssued tokens).
Keep(token) ==
  {issued}
  \cup (IF Cardinality(issued \cup {token}) <= MaxIssued THEN {issued \cup {token}} ELSE {})
  \cup {(issued \ {t}) \cup {token} : t \in issued}

\* A held token re-signed by someone who does not know the secret, possibly
\* for another user id.
Tampered(token) ==
  {[token EXCEPT !.key = ForgedKey, !.userId = id] : id \in {token.userId, 1}}

\* The authorization headers a client can send.
Headers ==
  {<< >>, <<"Bearer">>, <<"Bearer", EmptyToken>>, <<"Bearer", GarbageToken>>}
  \cup {<<"Bearer", t>> : t \in issued}
  \cup {<<"Bearer", t>> : t \in UNION {Tampered(i) : i \in issued}}

(***************************************************************************)
(* Actions.                                                                *)
(***************************************************************************)
\* The cart store as created: items: [], itemCount: 0, total: 0
EmptyCart == [items |-> << >>, itemCount |-> 0, total |-> 0]

\* The database after the seed script: the admin account, and (of the seeded
\* catalog) one category and one product in it.
FirstId == [users |-> 2, categories |-> 2, products |-> 2, orders |-> 1, orderItems |-> 1]

Init ==
  /\ users = {[id |-> 1, username |-> "admin", email |-> "admin@ecomfy.com",
               password |-> Hash("admin123"), role |-> "admin"]}
  /\ categories = {[id |-> 1, name |-> "Electronics"]}
  /\ products = {[id |-> 1, name |-> "Camera Drone",
                  description |-> "4K aerial photography with stabilization",
                  price |-> 59900, stock |-> 12,
                  categoryId |-> 1, rating |-> "4.1", reviewCount |-> 45,
                  isActive |-> TRUE]}
  /\ orders = {}
  /\ orderItems = {}
  /\ nextId = FirstId
  /\ now = 0
  /\ issued = {}
  /\ reqs = [s \in Slots |-> IdleReq]
  /\ cart = EmptyCart

\* Whether the model still has a fresh id for a row of the table.
HasFreshId(table) ==
  nextId[table] < FirstId[table] +
    (CASE table = "users" -> MaxUsers
       [] table = "orders" -> MaxOrders
       [] table = "orderItems" -> MaxOrderItems
       [] OTHER -> MaxRows)

\* A request arrives on a free connection slot.
Receive(s, route, header, body, param) ==
  /\ reqs[s].pc = "idle"
  /\ LET r == NewReq(route, header, body, param)
         k == [r EXCEPT !.at = now,
                        !.emailKnown = route = Login /\ \E u \in users : u.email = body.email]
     IN reqs' = [reqs EXCEPT ![s] = Dispatch(k)]
  /\ UNCHANGED <<storeVars, now, issued, cart>>

\* authenticateToken: storage.getUser answers.
AuthGetUser(s) ==
  /\ reqs[s].pc = "getUser"
  /\ LET r == [reqs[s] EXCEPT !.gateKnown = \E u \in users : u.id = reqs[s].decoded]
     IN reqs' = [reqs EXCEPT ![s] = authenticateTokenUser(r, GetUser(r.decoded))]
  /\ UNCHANGED <<storeVars, now, issued, cart>>

\* Mutant: the handler goes on to the username check whatever the email
\* lookup found.
RegGetUserByEmail_Ignored(s) ==
  /\ reqs[s].pc = "getUserByEmail"
  /\ LET r == [reqs[s] EXCEPT !.emailKnown = \E u \in users : u.email = reqs[s].body.email] IN
     reqs' = [reqs EXCEPT ![s] = [r EXCEPT !.pc = "getUserByUsername"]]
  /\ UNCHANGED <<storeVars, now, issued, cart>>

\* POST /api/auth/register: storage.getUserByEmail answers.
RegGetUserByEmail(s) ==
  /\ reqs[s].pc = "getUserByEmail"
  /\ LET r == [reqs[s] EXCEPT !.emailKnown = \E u \in users : u.email = reqs[s].body.email] IN
     reqs' = [reqs EXCEPT ![s] =
       IF GetUserByEmail(r.body.email) # NoUser
       THEN Respond(r, 400, "User already exists")
       ELSE [r EXCEPT !.pc = "getUserByUsername"]]
  /\ UNCHANGED <<storeVars, now, issued, cart>>

\* POST /api/auth/register: storage.getUserByUsername answers.
RegGetUserByUsername(s) ==
  /\ reqs[s].pc = "getUserByUsername"
  /\ LET r == reqs[s] IN
     reqs' = [reqs EXCEPT ![s] =
       IF GetUserByUsername(r.body.username) # NoUser
       THEN Respond(r, 400, "Username already taken")
       ELSE [r EXCEPT !.pc = "createUser"]]
  /\ UNCHANGED <<storeVars, now, issued, cart>>

\* POST /api/auth/register: storage.createUser inserts (or the insert fails on
\* a unique column), then the token is signed and the response sent.
RegCreateUser(s) ==
  /\ reqs[s].pc = "createUser"
  /\ LET r == reqs[s]
         row == NewUserRow(r.body)
         token == JwtSign(row.id, JWT_SECRET, now)
     IN IF UsersUniqueViolation(row.username, row.email)
        THEN /\ reqs' = [reqs EXCEPT ![s] = InternalError(r)]
             /\ UNCHANGED <<users, nextId, issued>>
        ELSE /\ HasFreshId("users")
             /\ users' = users \cup {row}
             /\ nextId' = [nextId EXCEPT !.users = @ + 1]
             /\ issued' \in Keep(token)
             /\ reqs' = [reqs EXCEPT ![s] =
                  RespondJson([r EXCEPT !.wrote = TRUE],
                              [NoOut EXCEPT !.user = PublicUser(row), !.token = token])]
  /\ UNCHANGED <<categories, products, orders, orderItems, now, cart>>

\* POST /api/auth/login: storage.getUserByEmail answers, bcrypt.compare, jwt.sign.
LoginGetUserByEmail(s) ==
  /\ reqs[s].pc = "loginGetUserByEmail"
  /\ LET user == GetUserByEmail(reqs[s].body.email)
         r == [reqs[s] EXCEPT !.emailKnown = user # NoUser]
         token == JwtSign(user.id, JWT_SECRET, now)
     IN IF user = NoUser
        THEN /\ reqs' = [reqs EXCEPT ![s] = LoginReject(r, "no user")]
             /\ UNCHANGED issued
        ELSE IF ~Compare(r.body.password, user.password)
        THEN /\ reqs' = [reqs EXCEPT ![s] = LoginReject(r, "bad password")]
             /\ UNCHANGED issued
        ELSE /\ issued' \in Keep(token)
             /\ reqs' = [reqs EXCEPT ![s] =
                  RespondJson(r, [NoOut EXCEPT !.user = PublicUser(user), !.token = token])]
  /\ UNCHANGED <<storeVars, now, cart>>

\* POST /api/categories: storage.createCategory inserts; categories.name is unique.
CreateCategory(s) ==
  /\ reqs[s].pc = "createCategory"
  /\ LET r == reqs[s]
         row == [id |-> nextId.categories, name |-> r.body.name]
     IN IF \E c \in categories : c.name = row.name
        THEN /\ reqs' = [reqs EXCEPT ![s] = InternalError(r)]
             /\ UNCHANGED <<categories, nextId>>
        ELSE /\ HasFreshId("categories")
             /\ categories' = categories \cup {row}
             /\ nextId' = [nextId EXCEPT !.categories = @ + 1]
             /\ reqs' = [reqs EXCEPT ![s] =
                  RespondJson([r EXCEPT !.wrote = TRUE], [NoOut EXCEPT !.rows = {row}])]
  /\ UNCHANGED <<users, products, orders, orderItems, now, issued, cart>>

\* POST /api/products: storage.createProduct inserts.
CreateProduct(s) ==
  /\ reqs[s].pc = "createProduct"
  /\ LET r == reqs[s]
         row == NewProductRow(r.body)
     IN IF ProductFkViolation(row.categoryId)
        THEN /\ reqs' = [reqs EXCEPT ![s] = InternalError(r)]
             /\ UNCHANGED <<products, nextId>>
        ELSE /\ HasFreshId("products")
             /\ products' = products \cup {row}
             /\ nextId' = [nextId EXCEPT !.products = @ + 1]
             /\ reqs' = [reqs EXCEPT ![s] =
                  RespondJson([r EXCEPT !.wrote = TRUE], [NoOut EXCEPT !.rows = {row}])]
  /\ UNCHANGED <<users, categories, orders, orderItems, now, issued, cart>>

\* PUT /api/products/:id: storage.updateProduct updates and returns the row.
UpdateProduct(s) ==
  /\ reqs[s].pc = "updateProduct"
  /\ LET r == reqs[s]
         old == GetProduct(r.param)
         row == UpdatedProductRow(old, r.body)
     IN IF NoValuesToSet(r.body) \/ (old # NoProduct /\ ProductFkViolation(row.categoryId))
        THEN /\ reqs' = [reqs EXCEPT ![s] = InternalError(r)]
             /\ UNCHANGED products
        ELSE IF old = NoProduct
        THEN /\ reqs' = [reqs EXCEPT ![s] = Respond(r, 404, "Product not found")]
             /\ UNCHANGED products
        ELSE /\ products' = (products \ {old}) \cup {row}
             /\ reqs' = [reqs EXCEPT ![s] =
                  RespondJson([r EXCEPT !.wrote = TRUE], [NoOut EXCEPT !.rows = {row}])]
  /\ UNCHANGED <<users, categories, orders, orderItems, nextId, now, issued, cart>>

\* DELETE /api/products/:id: storage.deleteProduct deletes and returns true;
\* the delete fails while an order item references the product.
DeleteProduct(s) ==
  /\ reqs[s].pc = "deleteProduct"
  /\ LET r == reqs[s] IN
     IF \E i \in orderItems : i.productId = r.param
     THEN /\ reqs' = [reqs EXCEPT ![s] = InternalError(r)]
          /\ UNCHANGED products
     ELSE /\ products' = {p \in products : p.id # r.param}
          /\ reqs' = [reqs EXCEPT ![s] =
               Respond([r EXCEPT !.wrote = \E p \in products : p.id = r.param],
                       200, "Product deleted successfully")]
  /\ UNCHANGED <<users, categories, orders, orderItems, nextId, now, issued, cart>>

\* GET /api/products: storage.getProducts answers.
GetProductsStep(s) ==
  /\ reqs[s].pc = "getProducts"
  /\ LET r == reqs[s] IN
     reqs' = [reqs EXCEPT ![s] =
       RespondJson(r, [NoOut EXCEPT !.rows = GetProducts(ProductFilters(r.body))])]
  /\ UNCHANGED <<storeVars, now, issued, cart>>

\* GET /api/orders: storage.getOrders answers; an admin asks for every order.
GetOrdersStep(s) ==
  /\ reqs[s].pc = "getOrders"
  /\ LET r == reqs[s]
         userId == IF r.user.role = "admin" THEN 0 ELSE r.user.id
     IN reqs' = [reqs EXCEPT ![s] = RespondJson(r, [NoOut EXCEPT !.rows = GetOrders(userId)])]
  /\ UNCHANGED <<storeVars, now, issued, cart>>

\* Mutant: the server prices the order from its first item.
CreateOrder_Recomputes(s) ==
  /\ reqs[s].pc = "createOrder"
  /\ LET r == reqs[s]
         first == r.body.items.elems[1]
         row == NewOrderRow([userId |-> r.user.id,
                             totalPrice |-> first.price[1] * first.quantity,
                             status |-> "pending", customerEmail |-> r.user.email])
     IN /\ HasFreshId("orders")
        /\ orders' = orders \cup {row}
        /\ nextId' = [nextId EXCEPT !.orders = @ + 1]
        /\ reqs' = [reqs EXCEPT ![s] =
             OrderItemsLoop([r EXCEPT !.wrote = TRUE, !.order = row, !.idx = 1])]
  /\ UNCHANGED <<users, categories, products, orderItems, now, issued, cart>>

\* POST /api/orders: storage.createOrder inserts the header (orders.user_id
\* references users.id), then the item loop starts.
CreateOrder(s) ==
  /\ reqs[s].pc = "createOrder"
  /\ LET r == reqs[s]
         row == NewOrderRow([userId |-> r.user.id, totalPrice |-> r.body.totalPrice[1],
                             status |-> "pending", customerEmail |-> r.user.email])
     IN IF ~\E u \in users : u.id = row.userId
        THEN /\ reqs' = [reqs EXCEPT ![s] = InternalError(r)]
             /\ UNCHANGED <<orders, nextId>>
        ELSE /\ HasFreshId("orders")
             /\ orders' = orders \cup {row}
             /\ nextId' = [nextId EXCEPT !.orders = @ + 1]
             /\ reqs' = [reqs EXCEPT ![s] =
                  OrderItemsLoop([r EXCEPT !.wrote = TRUE, !.order = row, !.idx = 1])]
  /\ UNCHANGED <<users, categories, products, orderItems, now, issued, cart>>

\* Mutant: writing an order item takes its quantity off the product's stock.
CreateOrderItem_DecrementsStock(s) ==
  /\ reqs[s].pc = "createOrderItem"
  /\ LET r == reqs[s]
         row == NewOrderItemRow(r.order.id, r.body.items.elems[r.idx])
     IN IF OrderItemFkViolation(row.orderId, row.productId)
        THEN /\ reqs' = [reqs EXCEPT ![s] = InternalError(r)]
             /\ UNCHANGED <<orderItems, nextId, products>>
        ELSE /\ HasFreshId("orderItems")
             /\ orderItems' = orderItems \cup {row}
             /\ nextId' = [nextId EXCEPT !.orderItems = @ + 1]
             /\ products' = {IF p.id = row.productId
                              THEN [p EXCEPT !.stock = @ - row.quantity] ELSE p :
                              p \in products}
             /\ reqs' = [reqs EXCEPT ![s] = OrderItemsLoop([r EXCEPT !.idx = @ + 1])]
  /\ UNCHANGED <<users, categories, orders, now, issued, cart>>

\* Mutant: a failed item write takes the order and its items back.
CreateOrderItem_RollsBack(s) ==
  /\ reqs[s].pc = "createOrderItem"
  /\ LET r == reqs[s]
         row == NewOrderItemRow(r.order.id, r.body.items.elems[r.idx])
     IN IF OrderItemFkViolation(row.orderId, row.productId)
        THEN /\ reqs' = [reqs EXCEPT ![s] = InternalError(r)]
             /\ orderItems' = {i \in orderItems : i.orderId # r.order.id}
             /\ orders' = orders \ {r.order}
             /\ UNCHANGED nextId
        ELSE /\ HasFreshId("orderItems")
             /\ orderItems' = orderItems \cup {row}
             /\ nextId' = [nextId EXCEPT !.orderItems = @ + 1]
             /\ reqs' = [reqs EXCEPT ![s] = OrderItemsLoop([r EXCEPT !.idx = @ + 1])]
             /\ UNCHANGED orders
  /\ UNCHANGED <<users, categories, products, now, issued, cart>>

\* POST /api/orders: storage.createOrderItem inserts item idx, then the loop
\* goes on.
CreateOrderItem(s) ==
  /\ reqs[s].pc = "createOrderItem"
  /\ LET r == reqs[s]
         row == NewOrderItemRow(r.order.id, r.body.items.elems[r.idx])
     IN IF OrderItemFkViolation(row.orderId, row.productId)
        THEN /\ reqs' = [reqs EXCEPT ![s] = InternalError(r)]
             /\ UNCHANGED <<orderItems, nextId>>
        ELSE /\ HasFreshId("orderItems")
             /\ orderItems' = orderItems \cup {row}
             /\ nextId' = [nextId EXCEPT !.orderItems = @ + 1]
             /\ reqs' = [reqs EXCEPT ![s] = OrderItemsLoop([r EXCEPT !.idx = @ + 1])]
  /\ UNCHANGED <<users, categories, products, orders, now, issued, cart>>

\* PUT /api/orders/:id/status: storage.updateOrderStatus updates and returns
\* the row.
UpdateOrderStatus(s) ==
  /\ reqs[s].pc = "updateOrderStatus"
  /\ LET r == reqs[s]
         old == GetOrder(r.param)
         row == [old EXCEPT !.status = r.body.status]
     IN IF old = NoOrder
        THEN /\ reqs' = [reqs EXCEPT ![s] = Respond(r, 404, "Order not found")]
             /\ UNCHANGED orders
        ELSE /\ orders' = (orders \ {old}) \cup {row}
             /\ reqs' = [reqs EXCEPT ![s] =
                  RespondJson([r EXCEPT !.wrote = TRUE], [NoOut EXCEPT !.rows = {row}])]
  /\ UNCHANGED <<users, categories, products, orderItems, nextId, now, issued, cart>>

\* scripts/clear-dummy-data.ts, run by an operator: its deletes in order; the
\* first one that fails (products still referenced by order items) ends it.
clearDummyData ==
  /\ IF orderItems # {}
     THEN UNCHANGED <<users, categories, products, orders, orderItems>>
     ELSE /\ products' = {}
          /\ categories' = {}
          /\ orderItems' = {}
          /\ orders' = {}
          /\ users' = {u \in users : u.email = "admin@ecomfy.com"}
  /\ UNCHANGED <<nextId, now, issued, reqs, cart>>

\* Time passes.
Tick(days) ==
  /\ now + days <= MaxClock
  /\ now' = now + days
  /\ UNCHANGED <<storeVars, issued, reqs, cart>>

\* The response has been sent: the connection slot is free again.
Close(s) ==
  /\ reqs[s].pc = "done"
  /\ reqs' = [reqs EXCEPT ![s] = IdleReq]
  /\ UNCHANGED <<storeVars, now, issued, cart>>

(***************************************************************************)
(* The requests clients send.                                              *)
(***************************************************************************)
Item(productId, quantity, price) ==
  [productId |-> productId, quantity |-> quantity, price |-> price]

ItemList(elems) == [type |-> "array", elems |-> elems]

\* A product body with no field, and the body the admin's product form sends.
NoFields ==
  [name |-> Missing, description |-> Missing, price |-> Absent, image |-> Missing,
   categoryId |-> Absent, stock |-> Absent, rating |-> Missing, reviewCount |-> Absent,
   isActive |-> Absent]

ProductBody(name, price, categoryId, isActive) ==
  [NoFields EXCEPT !.name = name, !.price = price, !.image = "chair.jpg",
                   !.categoryId = categoryId, !.isActive = isActive]

RegisterBody(username, email, password, confirmPassword, role) ==
  [username |-> username, email |-> email, password |-> password,
   confirmPassword |-> confirmPassword, role |-> role]

\* A client sends one of the given requests: bodies and params give, per
\* route, the bodies and the path ids on offer.
Request(s, routes, headers, bodies, params) ==
  \E route \in routes : \E header \in (IF route \in GuardedRoutes THEN headers ELSE {<< >>}) :
    \E body \in bodies[route] : \E param \in params[route] :
      Receive(s, route, header, body, param)

Routes == GuardedRoutes \cup {Register, Login, GetProductsRoute}

\* The query string of GET /api/products.
Query(categoryId, search, minPrice, maxPrice) ==
  [categoryId |-> categoryId, search |-> search, minPrice |-> minPrice,
   maxPrice |-> maxPrice]

\* The routes with an :id in their path.
IdRoutes == {PutProduct, DeleteProductRoute, PutOrderStatus}

(***************************************************************************)
(* Spec: every guarded route under every kind of credential, one request   *)
(* in flight at a time, with the operator's script and a clock that moves  *)
(* a token lifetime at a time.  Of the guarded handlers, order placement   *)
(* writes; the admin routes get the bodies their handlers reject and ids   *)
(* of no row (SpecAdmin has the bodies they accept).                       *)
(***************************************************************************)
GateBodies == [route \in Routes |->
  CASE route = Register -> {RegisterBody("alice", "a@x.com", "secret1", "secret1", Missing)}
    [] route = Login -> {[email |-> "admin@ecomfy.com", password |-> "admin123"]}
    [] route = PostCategories -> {[name |-> Missing]}
    [] route = PostProducts -> {ProductBody(Missing, <<10000>>, Absent, Absent)}
    [] route = PutProduct -> {ProductBody(BadType, <<20000>>, Absent, Absent)}
    [] route = PostOrders -> {[items |-> ItemList(<<Item(1, 2, <<599000>>)>>), totalPrice |-> <<1198000>>],
                              [items |-> ItemList(<< >>), totalPrice |-> <<0>>]}
    [] route = PutOrderStatus -> {[status |-> ""]}
    [] route = Upload -> {[file |-> "image"]}
    [] route = GetProductsRoute -> {Query(Absent, Missing, Missing, Missing)}
    [] OTHER -> {NoBody}]

GateParams == [route \in Routes |-> IF route \in IdRoutes THEN {9} ELSE {0}]

Next ==
  \/ Request(1, Routes, Headers, GateBodies, GateParams)
  \/ AuthGetUser(1)
  \/ RegGetUserByEmail(1)
  \/ RegGetUserByUsername(1)
  \/ RegCreateUser(1)
  \/ LoginGetUserByEmail(1)
  \/ DeleteProduct(1)
  \/ GetProductsStep(1)
  \/ GetOrdersStep(1)
  \/ CreateOrder(1)
  \/ CreateOrderItem(1)
  \/ Close(1)
  \/ clearDummyData
  \/ Tick(TokenDays)

Spec == Init /\ [][Next]_vars

(***************************************************************************)
(* SpecAdmin: the admin routes and order placement with the bodies their   *)
(* handlers accept and reject, sent by the admin and by a registered       *)
(* shopper with the tokens they hold.                                      *)
(***************************************************************************)
AdminBodies == [route \in Routes |->
  CASE route = Register -> {RegisterBody("alice", "a@x.com", "secret1", "secret1", Missing)}
    [] route = Login -> {[email |-> "admin@ecomfy.com", password |-> "admin123"],
                         [email |-> "a@x.com", password |-> "secret1"]}
    [] route = PostCategories -> {[name |-> "Home"], [name |-> Missing]}
    [] route = PostProducts -> {ProductBody("chair", <<10000>>, <<1>>, Absent),
                                ProductBody("chair", <<10000>>, <<9>>, Absent),
                                ProductBody(Missing, <<10000>>, Absent, Absent)}
    [] route = PutProduct -> {[NoFields EXCEPT !.price = <<20000>>],
                              NoFields,
                              ProductBody(BadType, <<20000>>, Absent, Absent)}
    [] route = PostOrders -> {[items |-> ItemList(<<Item(1, 2, <<599000>>)>>), totalPrice |-> <<1198000>>]}
    [] route = PutOrderStatus -> {[status |-> "shipped"], [status |-> ""]}
    [] OTHER -> {NoBody}]

AdminParams == [route \in Routes |-> IF route \in IdRoutes THEN {1, 9} ELSE {0}]

HeldTokens == {<<"Bearer", t>> : t \in issued}

NextAdmin ==
  \/ Request(1, AdminRoutes \cup {Register, Login, PostOrders}, HeldTokens, AdminBodies, AdminParams)
  \/ AuthGetUser(1)
  \/ RegGetUserByEmail(1)
  \/ RegGetUserByUsername(1)
  \/ RegCreateUser(1)
  \/ LoginGetUserByEmail(1)
  \/ CreateCategory(1)
  \/ CreateProduct(1)
  \/ UpdateProduct(1)
  \/ DeleteProduct(1)
  \/ CreateOrder(1)
  \/ CreateOrderItem(1)
  \/ UpdateOrderStatus(1)
  \/ Close(1)

SpecAdmin == Init /\ [][NextAdmin]_vars

(***************************************************************************)
(* SpecPair: two requests in flight, so that two responses can be set side *)
(* by side; a plain guarded route, one that reads a table and an admin     *)
(* route, under every kind of credential, with the operator's script and   *)
(* the clock.                                                              *)
(***************************************************************************)
PairRoutes == {Register, Me, GetOrdersRoute, PostProducts}

NextPair ==
  \/ \E s \in Slots : Request(s, PairRoutes, Headers, GateBodies, GateParams)
  \/ \E s \in Slots : AuthGetUser(s)
  \/ \E s \in Slots : RegGetUserByEmail(s)
  \/ \E s \in Slots : RegGetUserByUsername(s)
  \/ \E s \in Slots : RegCreateUser(s)
  \/ \E s \in Slots : GetOrdersStep(s)
  \/ \E s \in Slots : Close(s)
  \/ clearDummyData
  \/ Tick(TokenDays)

SpecPair == Init /\ [][NextPair]_vars

(***************************************************************************)
(* SpecAuth: registration, login and GET /api/auth/me, two requests in     *)
(* flight, their store operations interleaved in every order.              *)
(***************************************************************************)
AuthBodies == [route \in Routes |->
  CASE route = Register ->
         {RegisterBody(u, e, "secret1", "secret1", Missing) :
            u \in Usernames, e \in {"admin@ecomfy.com", "a@x.com", "bob"}}
         \cup {RegisterBody("alice", "a@x.com", "secret1", "admin123", Missing),
               RegisterBody("admin", "admin@ecomfy.com", "secret1", "abc", Missing),
               RegisterBody("carol", "bob", Missing, "secret1", Missing)}
    [] route = Login ->
         {[email |-> "a@x.com", password |-> "secret1"],
          [email |-> "a@x.com", password |-> "admin123"],
          [email |-> "a@x.com", password |-> "abc"],
          [email |-> "bob", password |-> "secret1"],
          [email |-> "admin@ecomfy.com", password |-> "admin123"]}
    [] OTHER -> {NoBody}]

NextAuth ==
  \/ \E s \in Slots : Request(s, {Register, Login, Me}, HeldTokens, AuthBodies, GateParams)
  \/ \E s \in Slots : AuthGetUser(s)
  \/ \E s \in Slots : RegGetUserByEmail(s)
  \/ \E s \in Slots : RegGetUserByUsername(s)
  \/ \E s \in Slots : RegCreateUser(s)
  \/ \E s \in Slots : LoginGetUserByEmail(s)
  \/ \E s \in Slots : Close(s)

SpecAuth == Init /\ [][NextAuth]_vars

(***************************************************************************)
(* SpecTime: the clock moves a day at a time; one connection logs in,      *)
(* registers and asks GET /api/auth/me, a second one presents the tokens   *)
(* held to GET /api/auth/me.                                               *)
(***************************************************************************)
TimeBodies == [route \in Routes |->
  CASE route = Register -> {RegisterBody("alice", "a@x.com", "secret1", "secret1", Missing)}
    [] route = Login -> {[email |-> "admin@ecomfy.com", password |-> "admin123"]}
    [] OTHER -> {NoBody}]

NextTime ==
  \/ Request(1, {Register, Login, Me}, HeldTokens, TimeBodies, GateParams)
  \/ Request(2, {Me}, HeldTokens, TimeBodies, GateParams)
  \/ \E s \in Slots : AuthGetUser(s)
  \/ RegGetUserByEmail(1)
  \/ RegGetUserByUsername(1)
  \/ RegCreateUser(1)
  \/ LoginGetUserByEmail(1)
  \/ \E s \in Slots : Close(s)
  \/ Tick(1)

SpecTime == Init /\ [][NextTime]_vars

(***************************************************************************)
(* SpecOrders: the order routes, one request in flight: the admin and a    *)
(* registered shopper place orders (well-formed, failing at the first or   *)
(* the second item, without items, without a total), read them back, and   *)
(* the admin sets statuses.                                                *)
(***************************************************************************)
NoItems == [type |-> "undefined", elems |-> << >>]
NotAList == [type |-> "string", elems |-> << >>]

OrderBodies == [route \in Routes |->
  CASE route = Register -> {RegisterBody("alice", "a@x.com", "secret1", "secret1", Missing)}
    [] route = Login -> {[email |-> "admin@ecomfy.com", password |-> "admin123"]}
    [] route = PostOrders ->
         {[items |-> ItemList(<<Item(1, 2, <<10000>>), Item(1, 1, <<5000>>)>>),
           totalPrice |-> <<25000>>],
          [items |-> ItemList(<<Item(1, 2, <<599000>>)>>), totalPrice |-> <<9995>>],
          [items |-> ItemList(<<Item(1, 2, <<10000>>), Item(9, 1, <<5000>>)>>),
           totalPrice |-> <<25000>>],
          [items |-> ItemList(<<Item(9, 1, <<5000>>)>>), totalPrice |-> <<5000>>],
          [items |-> ItemList(<<Item(1, 1, <<5000>>)>>), totalPrice |-> Absent],
          [items |-> NoItems, totalPrice |-> <<25000>>],
          [items |-> NotAList, totalPrice |-> <<25000>>],
          [items |-> ItemList(<< >>), totalPrice |-> <<25000>>]}
    [] route = PutOrderStatus -> {[status |-> st] : st \in Statuses \cup {"", Missing}}
    [] OTHER -> {NoBody}]

OrderParams == [route \in Routes |-> IF route \in IdRoutes THEN {1, 9} ELSE {0}]

NextOrders ==
  \/ Request(1, {Register, Login, PostOrders, GetOrdersRoute, PutOrderStatus},
             HeldTokens, OrderBodies, OrderParams)
  \/ AuthGetUser(1)
  \/ RegGetUserByEmail(1)
  \/ RegGetUserByUsername(1)
  \/ RegCreateUser(1)
  \/ LoginGetUserByEmail(1)
  \/ GetOrdersStep(1)
  \/ CreateOrder(1)
  \/ CreateOrderItem(1)
  \/ UpdateOrderStatus(1)
  \/ Close(1)

SpecOrders == Init /\ [][NextOrders]_vars

(***************************************************************************)
(* SpecCatalog: the admin creates, updates and deletes products, and       *)
(* anyone lists them under every combination of filters; one request in    *)
(* flight.                                                                 *)
(***************************************************************************)
Searches == {"DRONE", "aerial", "sofa", "_"}

CatalogBodies == [route \in Routes |->
  CASE route = Login -> {[email |-> "admin@ecomfy.com", password |-> "admin123"]}
    [] route = PostProducts ->
         {ProductBody("chair", <<10000>>, Absent, Absent),
          ProductBody("chair", <<-5000>>, Absent, Absent),
          [ProductBody("chair", <<10005>>, <<1>>, <<FALSE>>)
             EXCEPT !.rating = "4.5", !.reviewCount = <<7>>]}
    [] route = PutProduct ->
         {[NoFields EXCEPT !.isActive = <<FALSE>>],
          [NoFields EXCEPT !.price = <<100000>>],
          [NoFields EXCEPT !.stock = <<-3>>]}
    [] route = GetProductsRoute ->
         {Query(c, q, lo, hi) :
            c \in {Absent, <<1>>}, q \in Searches \cup {Missing, ""},
            lo \in {Missing, "100", "abc"}, hi \in {Missing, "599"}}
    [] OTHER -> {NoBody}]

CatalogParams == [route \in Routes |-> IF route \in IdRoutes THEN {1, 2, 9} ELSE {0}]

NextCatalog ==
  \/ Request(1, {Login, PostProducts, PutProduct, DeleteProductRoute, GetProductsRoute},
             HeldTokens, CatalogBodies, CatalogParams)
  \/ AuthGetUser(1)
  \/ LoginGetUserByEmail(1)
  \/ CreateProduct(1)
  \/ UpdateProduct(1)
  \/ DeleteProduct(1)
  \/ GetProductsStep(1)
  \/ Close(1)

SpecCatalog == Init /\ [][NextCatalog]_vars

(***************************************************************************)
(* SpecRoles: a client that holds no token and knows no password of a      *)
(* stored account registers, with every kind of role in the body, and      *)
(* sends the admin routes and an order with the tokens it was handed.      *)
(***************************************************************************)
RoleValues == {Missing, "", "user", "admin", "superuser"}

RoleBodies == [route \in Routes |->
  CASE route = Register ->
         {RegisterBody("alice", "a@x.com", "secret1", "secret1", role) : role \in RoleValues}
         \cup {RegisterBody("carol", "bob", "secret1", "secret1", role) : role \in RoleValues}
    [] route = PostCategories -> {[name |-> "Home"]}
    [] route = PostProducts -> {ProductBody("chair", <<10000>>, Absent, Absent)}
    [] route = PutProduct -> {[NoFields EXCEPT !.price = <<20000>>]}
    [] route = PostOrders -> {[items |-> ItemList(<<Item(1, 2, <<599000>>)>>),
                               totalPrice |-> <<1198000>>]}
    [] route = PutOrderStatus -> {[status |-> "shipped"]}
    [] OTHER -> {NoBody}]

RoleParams == [route \in Routes |-> IF route \in IdRoutes THEN {1} ELSE {0}]

NextRoles ==
  \/ Request(1, AdminRoutes \cup {Register, Me, PostOrders}, HeldTokens, RoleBodies, RoleParams)
  \/ AuthGetUser(1)
  \/ RegGetUserByEmail(1)
  \/ RegGetUserByUsername(1)
  \/ RegCreateUser(1)
  \/ CreateCategory(1)
  \/ CreateProduct(1)
  \/ UpdateProduct(1)
  \/ DeleteProduct(1)
  \/ CreateOrder(1)
  \/ CreateOrderItem(1)
  \/ UpdateOrderStatus(1)
  \/ Close(1)

SpecRoles == Init /\ [][NextRoles]_vars

(***************************************************************************)
(* SpecPlace: two requests in flight; the admin and a registered shopper   *)
(* place orders whose steps interleave in every order, while the admin     *)
(* deletes the product ordered.                                            *)
(***************************************************************************)
PlaceBodies == [route \in Routes |->
  CASE route = Register -> {RegisterBody("alice", "a@x.com", "secret1", "secret1", Missing)}
    [] route = Login -> {[email |-> "admin@ecomfy.com", password |-> "admin123"]}
    [] route = PostOrders ->
         {[items |-> ItemList(<<Item(1, 2, <<10000>>), Item(1, 1, <<5000>>)>>),
           totalPrice |-> <<25000>>],
          [items |-> ItemList(<<Item(9, 1, <<5000>>)>>), totalPrice |-> <<5000>>]}
    [] OTHER -> {NoBody}]

PlaceParams == [route \in Routes |-> IF route \in IdRoutes THEN {1} ELSE {0}]

NextPlace ==
  \/ \E s \in Slots :
       Request(s, {Register, Login, PostOrders, DeleteProductRoute},
               HeldTokens, PlaceBodies, PlaceParams)
  \/ \E s \in Slots : AuthGetUser(s)
  \/ \E s \in Slots : RegGetUserByEmail(s)
  \/ \E s \in Slots : RegGetUserByUsername(s)
  \/ \E s \in Slots : RegCreateUser(s)
  \/ \E s \in Slots : LoginGetUserByEmail(s)
  \/ \E s \in Slots : CreateOrder(s)
  \/ \E s \in Slots : CreateOrderItem(s)
  \/ \E s \in Slots : DeleteProduct(s)
  \/ \E s \in Slots : Close(s)

SpecPlace == Init /\ [][NextPlace]_vars

(***************************************************************************)
(* The client cart (lib/cart): a zustand store kept in the browser.  A     *)
(* line is a product's id and price with a quantity; its name and image    *)
(* play no part in the arithmetic and are left out.  Prices are in         *)
(* hundredths.                                                             *)
(***************************************************************************)
\* newItems.reduce((sum, item) => sum + item.quantity, 0)
RECURSIVE ReduceQuantity(_, _)
ReduceQuantity(newItems, sum) ==
  IF newItems = << >> THEN sum
  ELSE ReduceQuantity(Tail(newItems), sum + Head(newItems).quantity)

\* newItems.reduce((sum, item) => sum + (item.price * item.quantity), 0)
RECURSIVE ReduceTotal(_, _)
ReduceTotal(newItems, sum) ==
  IF newItems = << >> THEN sum
  ELSE ReduceTotal(Tail(newItems),
                   sum + (Head(newItems).price * Head(newItems).quantity))

\* set({ items: newItems, itemCount, total })
CartOf(newItems) ==
  [items |-> newItems,
   itemCount |-> ReduceQuantity(newItems, 0),
   total |-> ReduceTotal(newItems, 0)]

\* Mutant: addItem appends a line whether or not the product has one.
AddedItems_AlwaysAppends(items, item) ==
  Append(items, [id |-> item.id, price |-> item.price, quantity |-> 1])

\* addItem's newItems: one more of the product's line, or a new line of one.
AddedItems(items, item) ==
  IF \E k \in DOMAIN items : items[k].id = item.id
    THEN [k \in DOMAIN items |->
            IF items[k].id = item.id
              THEN [items[k] EXCEPT !.quantity = items[k].quantity + 1]
              ELSE items[k]]
    ELSE Append(items, [id |-> item.id, price |-> item.price, quantity |-> 1])

\* removeItem's newItems: items.filter(item => item.id !== id)
RemovedItems(items, id) == SelectSeq(items, LAMBDA item : item.id # id)

\* updateQuantity's newItems, for a quantity above zero.
UpdatedItems(items, id, quantity) ==
  [k \in DOMAIN items |->
     IF items[k].id = id THEN [items[k] EXCEPT !.quantity = quantity]
     ELSE items[k]]

\* The products a shopper sees, by id, and the prices their cards show.
CartIds == {1, 2, 3}
CartPrices == {59900, 10000}
\* The quantities the cart page passes: a line's quantity minus or plus one.
CartQuantities == (-1) .. MaxQty

addItem(item) ==
  /\ \A k \in DOMAIN cart.items :
       cart.items[k].id = item.id => cart.items[k].quantity < MaxQty
  /\ cart' = CartOf(AddedItems(cart.items, item))
  /\ UNCHANGED <<storeVars, now, issued, reqs>>

removeItem(id) ==
  /\ cart' = CartOf(RemovedItems(cart.items, id))
  /\ UNCHANGED <<storeVars, now, issued, reqs>>

updateQuantity(id, quantity) ==
  /\ IF quantity <= 0
       THEN cart' = CartOf(RemovedItems(cart.items, id))
       ELSE cart' = CartOf(UpdatedItems(cart.items, id, quantity))
  /\ UNCHANGED <<storeVars, now, issued, reqs>>

clearCart ==
  /\ cart' = EmptyCart
  /\ UNCHANGED <<storeVars, now, issued, reqs>>

NextCart ==
  \/ \E id \in CartIds, price \in CartPrices : addItem([id |-> id, price |-> price])
  \/ \E id \in CartIds : removeItem(id)
  \/ \E id \in CartIds, quantity \in CartQuantities : updateQuantity(id, quantity)
  \/ clearCart

SpecCart == Init /\ [][NextCart]_vars

(***************************************************************************)
(* Properties.                                                             *)
(***************************************************************************)
\* The credential of a request, and what it is at the time the gate judged it.
Credential(r) == BearerToken(r.header)

Verifies(r) ==
  /\ Credential(r).form = "jwt"
  /\ Credential(r).key = JWT_SECRET
  /\ r.at < Credential(r).exp

Expired(r) ==
  /\ Credential(r).form = "jwt"
  /\ Credential(r).key = JWT_SECRET
  /\ r.at >= Credential(r).exp

TamperedSignature(r) ==
  /\ Credential(r).form = "jwt"
  /\ Credential(r).key # JWT_SECRET

\* C1.  On every guarded route the handler body is entered, and a table is
\* written, only for a request whose bearer token verified against the server
\* secret, was not expired, and named a user stored when the gate looked it up
\* (the user the handler then runs as).
C1_GateIsPrecondition ==
  \A s \in Slots :
    LET r == reqs[s] IN
    (r.route \in GuardedRoutes /\ (r.started \/ r.wrote)) =>
      /\ Verifies(r)
      /\ r.gateKnown
      /\ r.user # NoUser
      /\ r.user.id = Credential(r).userId

\* C1 witness: an order placement carrying an expired token has been answered
\* without its handler being entered.
C1_Witness ==
  \E s \in Slots :
    LET r == reqs[s] IN
    /\ r.route = PostOrders /\ r.pc = "done"
    /\ Expired(r)
    /\ ~r.started /\ ~r.wrote /\ r.status >= 400

\* C2.  A request to an admin route that passed the auth gate as a user whose
\* role is not admin is answered 403 "Admin access required" whatever its body,
\* without its handler being entered (so before the body is validated) and
\* without writing a table.
C2_NonAdminForbidden ==
  \A s \in Slots :
    LET r == reqs[s] IN
    (r.route \in AdminRoutes /\ r.user # NoUser /\ r.user.role # "admin") =>
      /\ r.pc = "done"
      /\ r.status = 403
      /\ r.msg = "Admin access required"
      /\ r.out = NoOut
      /\ ~r.started
      /\ ~r.wrote

\* C2 witness: a shopper's POST /api/products with a body the schema rejects
\* has been answered 403.
C2_Witness ==
  \E s \in Slots :
    LET r == reqs[s] IN
    /\ r.route = PostProducts /\ r.pc = "done"
    /\ r.user # NoUser /\ r.user.role = "user"
    /\ ProductIssues(r.body) # << >>
    /\ r.status = 403

\* The three ways the auth gate fails a request it has answered.
NoCredential(r) == r.route \in GuardedRoutes /\ r.pc = "done" /\ Falsy(Credential(r))

BadCredential(r) ==
  r.route \in GuardedRoutes /\ r.pc = "done" /\ ~Falsy(Credential(r)) /\ ~Verifies(r)

UnknownUser(r) ==
  r.route \in GuardedRoutes /\ r.pc = "done" /\ Verifies(r) /\ ~r.gateKnown

\* C3 as claimed: a token that fails verification and a verified token of no
\* stored user are rejected with the same failure (status and message).
C3_SameInvalidTokenFailure ==
  \A s, t \in Slots :
    (BadCredential(reqs[s]) /\ UnknownUser(reqs[t])) =>
      /\ reqs[s].status = reqs[t].status
      /\ reqs[s].msg = reqs[t].msg

\* C3 as amended.  No token: 401 "Access token required".  A malformed,
\* expired or wrongly signed token: 403 "Invalid token".  A verified token
\* whose user id matches no stored user: 401 "Invalid token".  The last two
\* share their message and differ in status; in no case is the handler entered.
C3_GateFailureModes ==
  /\ \A s \in Slots :
       LET r == reqs[s] IN
       /\ NoCredential(r) => r.status = 401 /\ r.msg = "Access token required" /\ ~r.started
       /\ BadCredential(r) => r.status = 403 /\ r.msg = "Invalid token" /\ ~r.started
       /\ UnknownUser(r) => r.status = 401 /\ r.msg = "Invalid token" /\ ~r.started
  /\ \A s, t \in Slots :
       (BadCredential(reqs[s]) /\ UnknownUser(reqs[t])) =>
         /\ reqs[s].msg = reqs[t].msg
         /\ reqs[s].msg # "Access token required"

\* C3 witness: the token of a deleted account and an expired token have both
\* been answered.
C3_Witness ==
  \E s, t \in Slots :
    /\ UnknownUser(reqs[s])
    /\ BadCredential(reqs[t]) /\ Expired(reqs[t])

\* C4.  On every guarded route, with every body, an expired token and a token
\* with a tampered signature get the one response 403 "Invalid token", and the
\* handler is not entered.
C4_ExpiredAndTamperedAlike ==
  \A s \in Slots :
    LET r == reqs[s] IN
    (r.route \in GuardedRoutes /\ r.pc # "idle" /\ (Expired(r) \/ TamperedSignature(r))) =>
      /\ r.pc = "done"
      /\ r.status = 403
      /\ r.msg = "Invalid token"
      /\ r.out = NoOut
      /\ ~r.started

\* C4 witness: an upload with an expired token has been rejected.
C4_Witness ==
  \E s \in Slots :
    LET r == reqs[s] IN
    /\ r.route = Upload /\ r.pc = "done" /\ Expired(r) /\ r.status = 403

\* The registration and login requests that were answered with a token.
Issuing(r) == r.route \in {Register, Login} /\ r.pc = "done" /\ r.status = 200

\* A login whose email was that of a stored user with another password.
WrongPassword(r) ==
  /\ r.route = Login /\ r.pc = "done" /\ r.emailKnown
  /\ \E u \in users : u.email = r.body.email /\ ~Compare(r.body.password, u.password)

\* A login whose email was that of no stored user.
UnknownEmail(r) == r.route = Login /\ r.pc = "done" /\ ~r.emailKnown

\* C5.  A login with the email of a stored user and a wrong password, and a
\* login with the same password and an email of no stored user (the same email
\* before it was registered, or another email of the same well-formedness), get
\* the same status and the same body: 400 with one message and no token.
C5_LoginFailuresAlike ==
  \A s, t \in Slots :
    LET r == reqs[s]
        q == reqs[t]
    IN (/\ WrongPassword(r) /\ UnknownEmail(q)
        /\ r.body.password = q.body.password
        /\ IsEmail(r.body.email) = IsEmail(q.body.email)) =>
         /\ r.status = q.status
         /\ r.msg = q.msg
         /\ r.out = q.out
         /\ r.status = 400 /\ r.out = NoOut

\* C5 witness: the same login body answered once while its email was unknown
\* and once after the email was registered with another password, both past
\* the schema.
C5_Witness ==
  \E s, t \in Slots :
    /\ WrongPassword(reqs[s]) /\ UnknownEmail(reqs[t])
    /\ reqs[s].body = reqs[t].body
    /\ LoginIssues(reqs[s].body) = << >>

\* C6.  A token handed out by a login or a registration, presented to
\* GET /api/auth/me while it verifies, is answered 200 with exactly the user id
\* (and the account) the login or registration answered with.
C6_TokenResolvesToItsUser ==
  \A s, t \in Slots :
    LET r == reqs[s]
        q == reqs[t]
    IN (/\ Issuing(r)
        /\ q.route = Me /\ q.pc = "done"
        /\ Credential(q) = r.out.token
        /\ Verifies(q)) =>
         /\ q.status = 200
         /\ q.out.user.id = r.out.user.id
         /\ q.out.user = r.out.user
         /\ q.out.user.email = r.body.email
         /\ r.out.token.userId = r.out.user.id

\* C6 witness: the token of a registration has been presented to
\* GET /api/auth/me and answered, by a user other than the seeded admin.
C6_Witness ==
  \E s, t \in Slots :
    /\ Issuing(reqs[s]) /\ reqs[s].route = Register
    /\ reqs[t].route = Me /\ reqs[t].pc = "done"
    /\ Credential(reqs[t]) = reqs[s].out.token
    /\ reqs[t].status = 200

\* C7.  A request to GET /api/auth/me carrying a token signed by the server
\* for a stored user is accepted at every time before 7 days after the token
\* was issued, whatever was requested in between, and rejected at every time
\* after that.
C7_SevenDayTokens ==
  \A s \in Slots :
    LET r == reqs[s]
        token == Credential(r)
    IN (/\ r.route = Me /\ r.pc = "done"
        /\ token.form = "jwt" /\ token.key = JWT_SECRET
        /\ \E u \in users : u.id = token.userId) =>
         /\ r.at < token.iat + 7 => r.status = 200 /\ r.out.user.id = token.userId
         /\ r.at > token.iat + 7 => r.status = 403 /\ r.msg = "Invalid token"

\* C7 witness: one token answered 200 six days after it was issued, with a
\* later token issued in between, and answered 403 eight days after.
C7_Witness ==
  \E s, t \in Slots :
    /\ reqs[s].route = Me /\ reqs[s].pc = "done"
    /\ reqs[t].route = Me /\ reqs[t].pc = "done"
    /\ Credential(reqs[s]) = Credential(reqs[t])
    /\ reqs[s].at = Credential(reqs[s]).iat + 6 /\ reqs[s].status = 200
    /\ reqs[t].at = Credential(reqs[t]).iat + 8 /\ reqs[t].status = 403
    /\ nextId.users > FirstId.users

\* C8.  A registration whose confirmPassword differs from its password is
\* answered 400 with a validation message on arrival: it never waits for a
\* lookup, and it writes no row.
C8_MismatchRejectedFirst ==
  \A s \in Slots :
    LET r == reqs[s] IN
    (r.route = Register /\ r.body.password # r.body.confirmPassword) =>
      /\ r.pc = "done"
      /\ r.status = 400
      /\ r.msg \in {"Passwords don't match", "Required",
                     "String must contain at least 6 character(s)"}
      /\ (Missing \notin {r.body.password, r.body.confirmPassword}
            /\ Len(r.body.confirmPassword) >= 6) => r.msg = "Passwords don't match"
      /\ ~r.wrote
      /\ ~r.emailKnown
      /\ r.out = NoOut

\* C8 witness: a registration with two different passwords of six or more
\* characters, and an email that is taken, has been answered.
C8_Witness ==
  \E s \in Slots :
    LET r == reqs[s] IN
    /\ r.route = Register /\ r.pc = "done"
    /\ r.body.password = "secret1" /\ r.body.confirmPassword = "admin123"
    /\ r.msg = "Passwords don't match"

\* C9.  A well-formed registration whose email is that of a stored user when
\* the handler looks it up is answered 400 "User already exists" and writes no
\* row, whether or not its username is taken too.
C9_EmailConflictFirst ==
  \A s \in Slots :
    LET r == reqs[s] IN
    (r.route = Register /\ RegisterIssues(r.body) = << >> /\ r.emailKnown) =>
      /\ r.pc = "done"
      /\ r.status = 400
      /\ r.msg = "User already exists"
      /\ ~r.wrote
      /\ r.out = NoOut

\* C9 witness: a registration with a taken email and a taken username, and one
\* with a taken email and a free username, have both been answered.
C9_Witness ==
  \E s, t \in Slots :
    /\ reqs[s].route = Register /\ reqs[s].pc = "done" /\ reqs[s].emailKnown
    /\ reqs[t].route = Register /\ reqs[t].pc = "done" /\ reqs[t].emailKnown
    /\ \E u \in users : u.username = reqs[s].body.username
    /\ ~\E u \in users : u.username = reqs[t].body.username

\* C10 as claimed.  Of two well-formed registrations with the same email or
\* the same username, handled concurrently, where one creates the user, the
\* other creates none and is answered 400 with a duplicate message.
C10_RaceLoserGets400 ==
  \A s, t \in Slots :
    LET r == reqs[s]
        q == reqs[t]
    IN (/\ s # t
        /\ r.route = Register /\ r.pc = "done" /\ r.wrote
        /\ q.route = Register /\ q.pc = "done"
        /\ RegisterIssues(q.body) = << >>
        /\ (r.body.email = q.body.email \/ r.body.username = q.body.username)) =>
         /\ ~q.wrote
         /\ q.status = 400
         /\ q.msg \in {"User already exists", "Username already taken"}

\* The step of slot s is a step of a request to the route: its arrival or one
\* of its store operations with what follows.
StepOf(s, route) == reqs'[s] # reqs[s] /\ reqs'[s].route = route

\* An items field that is missing, not a list, or an empty list.
WithoutItems(items) == items \in {NoItems, NotAList, ItemList(<< >>)}

\* C11.  An order placement whose items are missing, not a list or an empty
\* list changes no table at any of its steps, and once past the gate it is
\* answered 400 "Order items are required" with no order created.
C11_NoItemsNoWrite ==
  [][\A s \in Slots :
       (StepOf(s, PostOrders) /\ WithoutItems(reqs'[s].body.items)) =>
         /\ storeVars' = storeVars
         /\ reqs'[s].started =>
              /\ reqs'[s].pc = "done"
              /\ reqs'[s].status = 400
              /\ reqs'[s].msg = "Order items are required"
              /\ reqs'[s].order = NoOrder
              /\ reqs'[s].out = NoOut]_vars

\* C11 witness: an order placement with an empty list has been answered 400
\* while an order was stored.
C11_Witness ==
  \E s \in Slots :
    /\ reqs[s].route = PostOrders /\ reqs[s].pc = "done" /\ reqs[s].started
    /\ reqs[s].body.items = ItemList(<< >>)
    /\ reqs[s].status = 400
    /\ orders # {}

\* The amount a decimal(10, 2) column holds for an amount sent: the same
\* amount when it has no more than two decimals, and the nearest hundredth
\* otherwise.
StoredAsGiven(stored, given) ==
  /\ stored * 10 - given \in -5..5
  /\ given % 10 = 0 => stored * 10 = given

\* The order row is the one POST /api/orders is to create for the request:
\* owned by the caller, pending, with the caller's email and the total sent.
OrderOfCaller(o, r) ==
  /\ o.userId = r.user.id
  /\ o.userId = Credential(r).userId
  /\ o.status = "pending"
  /\ o.customerEmail = r.user.email
  /\ \E u \in users : u.id = o.userId /\ u.email = o.customerEmail
  /\ StoredAsGiven(o.totalPrice, r.body.totalPrice[1])

\* C12.  An order placement adds order rows only at its createOrder step, and
\* then exactly one, owned by the caller, pending, with the caller's email and
\* the total the caller sent (whatever the items add up to); a placement
\* answered 200 has added that row and returns it.
C12_OneOrderForCaller ==
  [][\A s \in Slots :
       StepOf(s, PostOrders) =>
         /\ orders' # orders =>
              /\ reqs[s].pc = "createOrder"
              /\ \E o \in orders' \ orders :
                   /\ orders' = orders \cup {o}
                   /\ \A p \in orders : p.id # o.id
                   /\ OrderOfCaller(o, reqs'[s])
                   /\ reqs'[s].order = o
         /\ (reqs'[s].pc = "done" /\ reqs'[s].status = 200) =>
              /\ reqs'[s].order \in orders'
              /\ OrderOfCaller(reqs'[s].order, reqs'[s])
              /\ reqs'[s].out.rows = {reqs'[s].order}]_vars

\* C12 witness: the shopper's order of two items at 599 each, placed with a
\* total of 9.995, has been answered 200 and is stored with total 10.00.
C12_Witness ==
  \E s \in Slots :
    LET r == reqs[s] IN
    /\ r.route = PostOrders /\ r.pc = "done" /\ r.status = 200
    /\ r.user.role = "user"
    /\ r.body.totalPrice = <<9995>>
    /\ \E o \in orders : o.id = r.order.id /\ o.totalPrice = 1000
    /\ \E i \in orderItems : i.orderId = r.order.id /\ i.price * i.quantity # 1000

\* The order-item rows stored for an order.
ItemRowsOf(rows, orderId) == {i \in rows : i.orderId = orderId}

\* The row is the one createOrderItem is to write for the input item.
RowOfItem(row, item, orderId) ==
  /\ row.orderId = orderId
  /\ row.productId = item.productId
  /\ row.quantity = item.quantity
  /\ StoredAsGiven(row.price, item.price[1])

\* C13.  An order placement writes order-item rows one at a time: after k - 1
\* rows of its order, the row it adds references the new order and carries the
\* product, quantity and price of input item k; a placement of n items that is
\* answered 200 has written exactly n rows.
C13_ItemRowsFollowInput ==
  [][\A s \in Slots :
       StepOf(s, PostOrders) =>
         /\ orderItems' # orderItems =>
              \E i \in orderItems' \ orderItems :
                LET k == Cardinality(ItemRowsOf(orderItems, reqs[s].order.id)) + 1 IN
                /\ orderItems' = orderItems \cup {i}
                /\ \A j \in orderItems : j.id # i.id
                /\ reqs[s].order \in orders
                /\ k <= Len(reqs[s].body.items.elems)
                /\ RowOfItem(i, reqs[s].body.items.elems[k], reqs[s].order.id)
         /\ (reqs'[s].pc = "done" /\ reqs'[s].status = 200) =>
              Cardinality(ItemRowsOf(orderItems', reqs'[s].order.id))
                = Len(reqs'[s].body.items.elems)]_vars

\* C13 witness: the order of two items with quantities 2 and 1 has been
\* answered 200, its rows written in that order.
C13_Witness ==
  \E s \in Slots :
    LET r == reqs[s] IN
    /\ r.route = PostOrders /\ r.pc = "done" /\ r.status = 200
    /\ Len(r.body.items.elems) = 2
    /\ \E i, j \in ItemRowsOf(orderItems, r.order.id) :
         i.id < j.id /\ i.quantity = 2 /\ j.quantity = 1 /\ i.price = 1000 /\ j.price = 500

\* C14.  When the write of item k of an order placement fails (the step from
\* createOrderItem adds no row), the request is answered 500 "Internal server
\* error" with the order header and the k - 1 rows written so far still
\* stored, k - 1 < n; and no step of any request ever removes an order or an
\* order-item row, so they stay and no further item is written.
C14_NoRollback ==
  [][/\ orderItems \subseteq orderItems'
     /\ \A o \in orders : \E p \in orders' : p.id = o.id
     /\ \A s \in Slots :
          (StepOf(s, PostOrders) /\ reqs[s].pc = "createOrderItem"
             /\ orderItems' = orderItems) =>
            LET r == reqs'[s]
                written == ItemRowsOf(orderItems', r.order.id)
                k == Cardinality(written) + 1
            IN /\ r.pc = "done"
               /\ r.status = 500
               /\ r.msg = "Internal server error"
               /\ r.order \in orders'
               /\ k <= Len(r.body.items.elems)
               /\ \A m \in 1..(k - 1) :
                    \E i \in written : RowOfItem(i, r.body.items.elems[m], r.order.id)]_vars

\* C14 witness: an order of two items whose second names no product has been
\* answered 500, its header and its first item stored.
C14_Witness ==
  \E s \in Slots :
    LET r == reqs[s] IN
    /\ r.route = PostOrders /\ r.pc = "done" /\ r.status = 500
    /\ r.order \in orders
    /\ Cardinality(ItemRowsOf(orderItems, r.order.id)) = 1
    /\ Len(r.body.items.elems) = 2

\* C15.  No step of an order placement, whether it ends in 200, 400 or 500,
\* changes the products table: every product keeps its stock and its other
\* fields.
C15_OrdersLeaveProducts ==
  [][\A s \in Slots : StepOf(s, PostOrders) => products' = products]_vars

\* C15 witness: an order of two units of a product has been answered 200 and
\* the product is stored with the stock of 12 it was seeded with.
C15_Witness ==
  \E s \in Slots :
    LET r == reqs[s] IN
    /\ r.route = PostOrders /\ r.pc = "done" /\ r.status = 200
    /\ \E i \in ItemRowsOf(orderItems, r.order.id) :
         i.quantity = 2 /\ \E p \in products : p.id = i.productId /\ p.stock = 12

\* C16.  GET /api/orders answers a caller who is not an admin with exactly the
\* stored orders whose userId is the caller's id, and an admin with every
\* stored order.
C16_OwnOrdersUnlessAdmin ==
  \A s \in Slots :
    LET r == reqs[s] IN
    (r.route = GetOrdersRoute /\ r.pc = "done" /\ r.started) =>
      /\ r.status = 200
      /\ r.user.id = Credential(r).userId
      /\ r.user.role # "admin" =>
           /\ r.out.rows = {o \in orders : o.userId = r.user.id}
           /\ \A o \in r.out.rows : o.userId = Credential(r).userId
      /\ r.user.role = "admin" => r.out.rows = orders

\* C16 witness: the shopper has been answered with an order of their own while
\* an order of the admin is stored.
C16_Witness ==
  \E s \in Slots :
    LET r == reqs[s] IN
    /\ r.route = GetOrdersRoute /\ r.pc = "done" /\ r.status = 200
    /\ r.user.role = "user"
    /\ r.out.rows # {}
    /\ \E o \in orders : o.userId # r.user.id

\* C17.  A PUT /api/orders/:id/status that passed the role gate: with a missing
\* or empty status it is answered 400 and changes no order; otherwise its
\* update step, whatever the value and whatever the order's current status,
\* stores the value as sent on the addressed order alone and answers 200 with
\* that row, or answers 404 and changes no order when no order has the id.
C17_AnyStatusStored ==
  [][\A s \in Slots :
       (StepOf(s, PutOrderStatus) /\ reqs'[s].started) =>
         LET r == reqs'[s]
             addressed == {o \in orders : o.id = r.param}
         IN /\ r.user.role = "admin"
            /\ r.body.status \in {Missing, ""} =>
                 /\ r.pc = "done" /\ r.status = 400 /\ r.msg = "Status is required"
                 /\ orders' = orders
            /\ (r.body.status \notin {Missing, ""} /\ r.pc = "done" /\ addressed = {}) =>
                 /\ r.status = 404 /\ r.msg = "Order not found"
                 /\ orders' = orders
            /\ (r.body.status \notin {Missing, ""} /\ r.pc = "done" /\ addressed # {}) =>
                 /\ r.status = 200
                 /\ orders' = (orders \ addressed)
                                \cup {[o EXCEPT !.status = r.body.status] : o \in addressed}
                 /\ r.out.rows = {[o EXCEPT !.status = r.body.status] : o \in addressed}]_vars

\* C17 witness: the admin has set an order to a status outside the known ones
\* and been answered 200, and the order is stored with it.
C17_Witness ==
  \E s \in Slots :
    LET r == reqs[s] IN
    /\ r.route = PutOrderStatus /\ r.pc = "done" /\ r.status = 200
    /\ r.body.status = "bogus"
    /\ \E o \in orders : o.id = r.param /\ o.status = "bogus"

\* C18.  The row POST /api/products adds, and answers with, has rating "0.0",
\* reviewCount 0 and isActive true, whatever the body gave for the three.
C18_NewProductDefaults ==
  [][\A s \in Slots :
       StepOf(s, PostProducts) =>
         /\ products' # products =>
              \E p \in products' \ products :
                /\ products' = products \cup {p}
                /\ \A q \in products : q.id # p.id
                /\ p.rating = "0.0" /\ p.reviewCount = 0 /\ p.isActive = TRUE
                /\ p.name = reqs[s].body.name
                /\ reqs'[s].pc = "done" /\ reqs'[s].status = 200
                /\ reqs'[s].out.rows = {p}
         /\ (reqs'[s].pc = "done" /\ reqs'[s].status = 200) => products' # products]_vars

\* C18 witness: a product sent with rating "4.5", reviewCount 7 and isActive
\* false has been created.
C18_Witness ==
  \E s \in Slots :
    LET r == reqs[s] IN
    /\ r.route = PostProducts /\ r.pc = "done" /\ r.status = 200
    /\ r.body.rating = "4.5" /\ r.body.reviewCount = <<7>> /\ r.body.isActive = <<FALSE>>
    /\ r.out.rows \subseteq products

\* q is a run of consecutive characters of t.
Substring(q, t) ==
  \E i \in 0..(Len(t) - Len(q)) : SubSeq(t, i + 1, i + Len(q)) = q

\* search is a case-insensitive substring of the text.
ContainsIgnoringCase(text, search) ==
  text # Null /\ Substring(LowerAll(Chars(search)), LowerAll(Chars(text)))

\* The product is active and meets every filter the query supplies.
Listed(p, query) ==
  /\ p.isActive = TRUE
  /\ query.categoryId # Absent => p.categoryId = query.categoryId[1]
  /\ query.search \notin {Missing, ""} =>
       \/ ContainsIgnoringCase(p.name, query.search)
       \/ ContainsIgnoringCase(p.description, query.search)
  /\ query.minPrice \notin {Missing, ""} => p.price * 10 >= ParseFloat(query.minPrice).v
  /\ query.maxPrice \notin {Missing, ""} => p.price * 10 <= ParseFloat(query.maxPrice).v

\* The price bounds of the query, where supplied, are numbers.
NumericBounds(query) ==
  /\ query.minPrice \notin {Missing, ""} => ~ParseFloat(query.minPrice).nan
  /\ query.maxPrice \notin {Missing, ""} => ~ParseFloat(query.maxPrice).nan

\* C19 as claimed.  GET /api/products answers with exactly the stored products
\* that are active and meet every supplied filter: categoryId equal, search a
\* case-insensitive substring of the name or the description, price >= minPrice,
\* price <= maxPrice.
C19_ListingIsFilteredSet ==
  \A s \in Slots :
    LET r == reqs[s] IN
    (r.route = GetProductsRoute /\ r.pc = "done" /\ NumericBounds(r.body)) =>
      /\ r.status = 200
      /\ r.out.rows = {p \in products : Listed(p, r.body)}

\* The same with the searches that hold a LIKE wildcard left aside.
C19_HoldsWithoutWildcards ==
  \A s \in Slots :
    LET r == reqs[s] IN
    (r.route = GetProductsRoute /\ r.pc = "done" /\ NumericBounds(r.body)
       /\ r.body.search # "_") =>
      /\ r.status = 200
      /\ r.out.rows = {p \in products : Listed(p, r.body)}

\* C20 as claimed.  The delete step of DELETE /api/products/:id by an admin
\* answers 404 "Product not found" when no product has the id, and answers 200
\* only when it removed a product row.
C20_DeleteMissingIs404 ==
  [][\A s \in Slots :
       (StepOf(s, DeleteProductRoute) /\ reqs[s].pc = "deleteProduct") =>
         /\ (~\E p \in products : p.id = reqs[s].param) =>
              reqs'[s].status = 404 /\ reqs'[s].msg = "Product not found"
         /\ reqs'[s].status = 200 =>
              /\ products' # products
              /\ products' = {p \in products : p.id # reqs[s].param}]_vars

\* C21.  No two stored users share an email and no two share a username,
\* however the steps of registrations interleave.
C21_UniqueUsers ==
  \A u, v \in users :
    u # v => /\ u.email # v.email
             /\ u.username # v.username
             /\ u.id # v.id

\* C21 witness: two registrations with one email passed their lookups
\* together; one created the user, the other's insert was refused.
C21_Witness ==
  \E s, t \in Slots :
    /\ s # t
    /\ reqs[s].route = Register /\ reqs[s].pc = "done" /\ reqs[s].wrote
    /\ reqs[t].route = Register /\ reqs[t].pc = "done" /\ reqs[t].status = 500
    /\ reqs[s].body.email = reqs[t].body.email
    /\ Cardinality(users) >= 2

\* C22.  Every stored user row holds the hash of a password and never the
\* password itself: the row a registration wrote holds the hash of the
\* password sent.  The user of a response of register, login or /api/auth/me
\* has the fields id, username, email and role only, and none of their values
\* is a password or a stored hash.
C22_PasswordNeverPlain ==
  /\ \A u \in users :
       /\ u.password \notin Passwords
       /\ \E p \in Passwords : u.password = Hash(p) /\ Compare(p, u.password)
  /\ \A s \in Slots :
       LET r == reqs[s] IN
       r.route \in {Register, Login, Me} =>
         /\ DOMAIN r.out.user = {"id", "username", "email", "role"}
         /\ \A f \in {"username", "email", "role"} :
              /\ r.out.user[f] \notin Passwords
              /\ \A u \in users : r.out.user[f] # u.password
         /\ r.msg \notin Passwords
         /\ (r.route = Register /\ r.wrote) =>
              \E u \in users :
                /\ u.id = r.out.user.id
                /\ u.password = Hash(r.body.password)
                /\ u.password # r.body.password

\* C22 witness: a registration has created a user and been answered, and a
\* login with the admin's password has been answered 200.
C22_Witness ==
  \E s, t \in Slots :
    /\ reqs[s].route = Register /\ reqs[s].pc = "done" /\ reqs[s].wrote
    /\ reqs[s].out.user.username = reqs[s].body.username
    /\ reqs[t].route = Login /\ reqs[t].pc = "done" /\ reqs[t].status = 200

\* C23 as claimed.  Every stored user's role is "user" or "admin".
C23_RoleIsUserOrAdmin == \A u \in users : u.role \in {"user", "admin"}

\* The part of C23 that holds: a registration without a role, or with an
\* empty one, stores the role "user".
C23_OmittedRoleIsUser ==
  \A s \in Slots :
    LET r == reqs[s] IN
    (r.route = Register /\ r.wrote /\ r.body.role \in {Missing, ""}) =>
      \E u \in users : u.id = r.out.user.id /\ u.role = "user"

\* The statuses the schema's comment lists for an order.
KnownStatuses == {"pending", "processing", "shipped", "delivered", "cancelled"}

\* C24 as claimed.  Every stored order's status is one of pending, processing,
\* shipped, delivered and cancelled.
C24_StatusIsKnown == \A o \in orders : o.status \in KnownStatuses

\* C25.  At every step of the API: an order that appears is pending; every
\* stored order stays stored with its owner, total and email; and its status
\* changes only at the update step of a PUT /api/orders/:id/status for its id
\* whose token verified, whose user was stored and whose role is admin.
C25_OrderLifecycle ==
  [][/\ \A o \in orders' :
          (~\E p \in orders : p.id = o.id) => o.status = "pending"
     /\ \A o \in orders :
          \E p \in orders' :
            /\ p.id = o.id
            /\ p.userId = o.userId
            /\ p.totalPrice = o.totalPrice
            /\ p.customerEmail = o.customerEmail
            /\ p.status # o.status =>
                 \E s \in Slots :
                   /\ StepOf(s, PutOrderStatus)
                   /\ reqs[s].pc = "updateOrderStatus"
                   /\ reqs[s].param = o.id
                   /\ Verifies(reqs[s]) /\ reqs[s].gateKnown
                   /\ reqs[s].user.role = "admin"
                   /\ p.status = reqs[s].body.status]_vars

\* C25 witness: a shopper's order has been set to shipped by the admin.
C25_Witness ==
  \E s \in Slots :
    LET r == reqs[s] IN
    /\ r.route = PutOrderStatus /\ r.pc = "done" /\ r.status = 200
    /\ r.user.role = "admin"
    /\ \E o \in orders :
         /\ o.id = r.param /\ o.status = "shipped"
         /\ \E u \in users : u.id = o.userId /\ u.role = "user"

\* C26 as claimed.  Every stored order has at least one stored order item.
C26_OrderHasItems ==
  \A o \in orders : \E i \in orderItems : i.orderId = o.id

\* C27 as claimed.  Every stored product has a price and a stock that are not
\* negative.
C27_PriceAndStockNotNegative ==
  \A p \in products : p.price >= 0 /\ p.stock >= 0

\* An account of the seed, not one created through the API.
Seeded(u) == u.id < FirstId.users

\* C28 as claimed.  The handler of an admin-only route runs, and an admin-only
\* write happens, only for a request of a seeded account: never for an account
\* the client created through the API.
C28_NoSelfMadeAdmin ==
  \A s \in Slots :
    LET r == reqs[s] IN
    (r.route \in AdminRoutes /\ (r.started \/ r.wrote)) => Seeded(r.user)

\* C29.  After every step, every stored order item references a stored order
\* and a stored product.  The order a placement adds is the one it holds and
\* no other request holds, and every order item a placement adds references
\* that order, whatever other placements do in between.
C29_ItemsReferToTheirOrder ==
  [][/\ \A i \in orderItems' :
          /\ \E o \in orders' : o.id = i.orderId
          /\ \E p \in products' : p.id = i.productId
     /\ \A s \in Slots :
          StepOf(s, PostOrders) =>
            /\ orders' # orders =>
                 \E o \in orders' \ orders :
                   /\ orders' = orders \cup {o}
                   /\ reqs'[s].order = o
                   /\ o.userId = reqs[s].user.id
                   /\ \A t \in Slots \ {s} : reqs'[t].order.id # o.id
            /\ \A i \in orderItems' \ orderItems :
                 /\ i.orderId = reqs[s].order.id
                 /\ reqs[s].order \in orders
                 /\ reqs[s].order.userId = reqs[s].user.id]_vars

\* C29 witness: the placements of two users are in flight together, each with
\* an item written for its own order, and a delete of the product they ordered
\* has not removed it.
C29_Witness ==
  \E s, t \in Slots :
    /\ reqs[s].route = PostOrders /\ reqs[t].route = PostOrders
    /\ reqs[s].user.id # reqs[t].user.id
    /\ reqs[s].pc = "createOrderItem" /\ reqs[t].pc = "done"
    /\ ItemRowsOf(orderItems, reqs[s].order.id) # {}
    /\ ItemRowsOf(orderItems, reqs[t].order.id) # {}
    /\ reqs[s].order.id # reqs[t].order.id

\* The sum of the quantities of the cart's lines.
RECURSIVE SumOfQuantities(_)
SumOfQuantities(lines) ==
  IF lines = << >> THEN 0 ELSE Head(lines).quantity + SumOfQuantities(Tail(lines))

\* The sum of price times quantity over the cart's lines.
RECURSIVE SumOfLineTotals(_)
SumOfLineTotals(lines) ==
  IF lines = << >> THEN 0
  ELSE Head(lines).price * Head(lines).quantity + SumOfLineTotals(Tail(lines))

\* C30.  After every cart operation, itemCount is the sum of the lines'
\* quantities, total is the sum of price times quantity over the lines, no two
\* lines have the same product id and every line has a quantity of at least
\* one; an updateQuantity with a quantity of zero or less leaves no line of
\* that product.
C30_CartTotalsAndLines ==
  [][/\ cart'.itemCount = SumOfQuantities(cart'.items)
     /\ cart'.total = SumOfLineTotals(cart'.items)
     /\ \A j, k \in DOMAIN cart'.items :
          cart'.items[j].id = cart'.items[k].id => j = k
     /\ \A k \in DOMAIN cart'.items : cart'.items[k].quantity >= 1
     /\ \A id \in CartIds, quantity \in CartQuantities :
          (quantity <= 0 /\ updateQuantity(id, quantity)) =>
            /\ \A k \in DOMAIN cart'.items : cart'.items[k].id # id
            /\ Len(cart'.items) =
                 Len(cart.items) -
                   (IF \E k \in DOMAIN cart.items : cart.items[k].id = id THEN 1 ELSE 0)]_vars

\* C30 witness: a cart of two lines, one of them added to more than once.
C30_Witness ==
  /\ Len(cart.items) = 2
  /\ cart.items[1].quantity = 2
  /\ cart.items[2].quantity = 1
  /\ cart.itemCount = 3
  /\ cart.total = 2 * cart.items[1].price + cart.items[2].price

====
